---- MODULE Spec2Model ----
(***************************************************************************)
(* Connect Four relay server (app.py): the JOIN / WATCH registries, the    *)
(* per-connection handlers start / join / watch, replay and play, and the  *)
(* fan-out of play and win events.                                         *)
(*                                                                         *)
(* asyncio runs the handlers on one thread: a handler runs without         *)
(* interruption from one await to the next, so every action below is the   *)
(* code between two awaits of one handler.  An inbound message is modelled *)
(* at the moment the handler receives it, and only an open connection      *)
(* delivers messages.  websocket.send writes the event and then yields.    *)
(***************************************************************************)
EXTENDS Integers, Sequences, FiniteSets, TLC

\* ---- bounds of the model ------------------------------------------------
NumConns == 3
NumTokens == 2
NumCols == 2
NumRows == 2
WinLen == 2
MaxErrors == 1

Conns == 1 .. NumConns
Tokens == 1 .. NumTokens
Columns == 0 .. (NumCols - 1)

\* ---- values ---------------------------------------------------------------
PLAYER1 == "PLAYER1"
PLAYER2 == "PLAYER2"
None == "None"
\* the "no entry" result of a registry lookup (KeyError), and "no game bound"
NoGame == 0

GameNotFound == "Game not found."
NotYourTurn == "It isn't your turn."
SlotFull == "This slot is full."
GameOver == "The game is over."

VARIABLES
    pc,         \* position of each connection's handler
    open,       \* whether the connection's transport is open
    role,       \* which of start / join / watch the handler dispatched to
    JOIN,       \* join key -> game (NoGame: no entry)
    WATCH,      \* watch key -> game (NoGame: no entry)
    join_key,   \* local join_key of start() and join()
    watch_key,  \* local watch_key of start() and watch()
    game_of,    \* the game (and connected set) a handler holds
    moves,      \* game.moves of the game started by a connection
    winner,     \* game.winner
    connected,  \* the connected set of the game started by a connection
    snap,       \* replay(): the copy of game.moves being iterated
    sent,       \* replay(): how many items of the copy were sent
    received,   \* events written to each connection, in order
    via,        \* history: how each received event was sent
    attachLen,  \* history: length of game.moves when the connection attached
    minted      \* history: keys generated so far, per namespace

vars == << pc, open, role, JOIN, WATCH, join_key, watch_key, game_of, moves,
           winner, connected, snap, sent, received, via, attachLen, minted >>

\* ---- events (the JSON objects of the code) --------------------------------
InitEvent(jk, wk) == [type |-> "init", join |-> jk, watch |-> wk]
PlayEvent(player, column, row) ==
    [type |-> "play", player |-> player, column |-> column, row |-> row]
WinEvent(player) == [type |-> "win", player |-> player]
ErrorEvent(message) == [type |-> "error", message |-> message]
MoveEvent(m) == PlayEvent(m[1], m[2], m[3])

\* ---- rules engine (connect4.Connect4) -------------------------------------
last_player(m) == IF Len(m) % 2 = 1 THEN PLAYER1 ELSE PLAYER2
top(m, column) == Cardinality({i \in 1 .. Len(m) : m[i][2] = column})
Owns(m, player, column, row) == \E i \in 1 .. Len(m) : m[i] = << player, column, row >>
Directions == { << 1, 0 >>, << 0, 1 >>, << 1, 1 >>, << 1, -1 >> }
last_player_won(m) ==
    \E c \in Columns, r \in 0 .. (NumRows - 1), d \in Directions :
        \A k \in 0 .. (WinLen - 1) :
            Owns(m, last_player(m), c + k * d[1], r + k * d[2])
IllegalReason(g, player, column) ==
    IF winner[g] # None THEN GameOver
    ELSE IF player = last_player(moves[g]) THEN NotYourTurn
    ELSE IF top(moves[g], column) = NumRows THEN SlotFull
    ELSE None
Legal(g, player, column) == IllegalReason(g, player, column) = None
PlayedMove(g, player, column) == << player, column, top(moves[g], column) >>
WinnerAfter(g, m) ==
    IF winner[g] = None /\ last_player_won(m) THEN last_player(m) ELSE winner[g]

\* ---- sending ----------------------------------------------------------------
\* websocket.send(event) on connection c
Send(rcv, c, event) == [rcv EXCEPT ![c] = Append(@, event)]
Tag(v, c, how) == [v EXCEPT ![c] = Append(@, how)]
\* (a connection that is only added to the set once its replay is over)
BroadcastTargetsAfterReplay(g) == {d \in connected[g] : open[d] /\ pc[d] # "replay"}
\* websockets.broadcast(connected, event): every member whose transport is open
BroadcastTargets(g) == {d \in connected[g] : open[d]}
Broadcast(rcv, g, event) ==
    [d \in Conns |-> IF d \in BroadcastTargets(g) THEN Append(rcv[d], event) ELSE rcv[d]]
BroadcastTag(v, g) ==
    [d \in Conns |-> IF d \in BroadcastTargets(g) THEN Append(v[d], "broadcast") ELSE v[d]]

\* ---- registry ---------------------------------------------------------------
\* (the entry is never stored)
RegisterNothing(reg, key, g) == reg
\* JOIN[join_key] = game, connected / WATCH[watch_key] = game, connected
Register(reg, key, g) == [reg EXCEPT ![key] = g]
\* del JOIN[join_key]
Unregister(reg, key) == [reg EXCEPT ![key] = NoGame]
\* JOIN[join_key] / WATCH[watch_key]; NoGame stands for KeyError
Lookup(reg, key) == reg[key]
\* secrets.token_urlsafe(12) as the fresh-key specification sees it: 96 random
\* bits, a key never generated before; keys are named in order of generation
Fresh(kind, key) == key \notin minted[kind] /\ key = Cardinality(minted[kind]) + 1
\* connections are named in the order in which their handlers first act
Untouched(c) == pc[c] = "init" /\ open[c]
InOrder(c) == \A d \in Conns : d < c => ~Untouched(d)

Player(c) == IF role[c] = "start" THEN PLAYER1 ELSE PLAYER2

Init ==
    /\ pc = [c \in Conns |-> "init"]
    /\ open = [c \in Conns |-> TRUE]
    /\ role = [c \in Conns |-> "none"]
    /\ JOIN = [k \in Tokens |-> NoGame]
    /\ WATCH = [k \in Tokens |-> NoGame]
    /\ join_key = [c \in Conns |-> 0]
    /\ watch_key = [c \in Conns |-> 0]
    /\ game_of = [c \in Conns |-> NoGame]
    /\ moves = [c \in Conns |-> << >>]
    /\ winner = [c \in Conns |-> None]
    /\ connected = [c \in Conns |-> {}]
    /\ snap = [c \in Conns |-> << >>]
    /\ sent = [c \in Conns |-> 0]
    /\ received = [c \in Conns |-> << >>]
    /\ via = [c \in Conns |-> << >>]
    /\ attachLen = [c \in Conns |-> 0]
    /\ minted = [kind \in {"join", "watch"} |-> {}]

\* ---- start() ----------------------------------------------------------------
\* (start() that stores the join key only)
StartJoinOnly(c, jk, wk) ==
    /\ pc[c] = "init" /\ open[c] /\ InOrder(c)
    /\ role' = [role EXCEPT ![c] = "start"]
    /\ moves' = [moves EXCEPT ![c] = << >>]
    /\ winner' = [winner EXCEPT ![c] = None]
    /\ connected' = [connected EXCEPT ![c] = {c}]
    /\ game_of' = [game_of EXCEPT ![c] = c]
    /\ JOIN' = Register(JOIN, jk, c)
    /\ join_key' = [join_key EXCEPT ![c] = jk]
    /\ watch_key' = [watch_key EXCEPT ![c] = wk]
    /\ minted' = [minted EXCEPT !["join"] = @ \cup {jk}, !["watch"] = @ \cup {wk}]
    /\ received' = Send(received, c, InitEvent(jk, wk))
    /\ via' = Tag(via, c, "unicast")
    /\ pc' = [pc EXCEPT ![c] = "play"]
    /\ UNCHANGED << open, snap, sent, attachLen, WATCH >>

\* handler(): an init event with neither "join" nor "watch"; start() up to the
\* await of play() on the first message
Start(c, jk, wk) ==
    /\ pc[c] = "init" /\ open[c] /\ InOrder(c)
    /\ role' = [role EXCEPT ![c] = "start"]
    /\ moves' = [moves EXCEPT ![c] = << >>]
    /\ winner' = [winner EXCEPT ![c] = None]
    /\ connected' = [connected EXCEPT ![c] = {c}]
    /\ game_of' = [game_of EXCEPT ![c] = c]
    /\ JOIN' = Register(JOIN, jk, c)
    /\ WATCH' = Register(WATCH, wk, c)
    /\ join_key' = [join_key EXCEPT ![c] = jk]
    /\ watch_key' = [watch_key EXCEPT ![c] = wk]
    /\ minted' = [minted EXCEPT !["join"] = @ \cup {jk}, !["watch"] = @ \cup {wk}]
    /\ received' = Send(received, c, InitEvent(jk, wk))
    /\ via' = Tag(via, c, "unicast")
    /\ pc' = [pc EXCEPT ![c] = "play"]
    /\ UNCHANGED << open, snap, sent, attachLen >>

\* ---- replay() ---------------------------------------------------------------
\* game.moves.copy()
MovesCopy(g) == moves[g]
\* (the loop runs over the copy backwards)
ReplayItemReversed(copy, k) == MoveEvent(copy[Len(copy) + 1 - k])
\* the k-th event of the loop "for player, column, row in <copy>"
ReplayItem(copy, k) == MoveEvent(copy[k])
\* (the loop runs over game.moves itself, not over a copy)
ReplaySourceLive(c) == moves[game_of[c]]
\* the list the loop of replay() iterates
ReplaySource(c) == snap[c]
\* (watch() goes on to play() like join())
AfterReplayAlwaysPlay(c, r) == "play"
\* (replay() hands its events to every open connection that holds a game)
ReplaySendToAll(rcv, c, event) ==
    [d \in Conns |->
        IF d = c \/ (open[d] /\ game_of[d] # NoGame /\ pc[d] # "done")
        THEN Append(rcv[d], event) ELSE rcv[d]]
\* replay(): await websocket.send(json.dumps(event))
ReplaySend(rcv, c, event) == Send(rcv, c, event)
\* where a handler continues once replay() has sent everything
AfterReplay(c, r) == IF r = "join" THEN "play" ELSE "wait_closed"

\* join() / watch() after a successful lookup: connected.add, then replay() up
\* to its first await (the first send, if the copy is not empty)
Attach(c, g, r) ==
    LET copy == MovesCopy(g) IN
    /\ role' = [role EXCEPT ![c] = r]
    /\ game_of' = [game_of EXCEPT ![c] = g]
    /\ connected' = [connected EXCEPT ![g] = @ \cup {c}]
    /\ attachLen' = [attachLen EXCEPT ![c] = Len(moves[g])]
    /\ snap' = [snap EXCEPT ![c] = copy]
    /\ IF copy = << >>
       THEN /\ sent' = [sent EXCEPT ![c] = 0]
            /\ pc' = [pc EXCEPT ![c] = AfterReplay(c, r)]
            /\ UNCHANGED << received, via >>
       ELSE /\ sent' = [sent EXCEPT ![c] = 1]
            /\ received' = ReplaySend(received, c, ReplayItem(copy, 1))
            /\ via' = Tag(via, c, "replay")
            /\ pc' = [pc EXCEPT ![c] = IF Len(copy) = 1 THEN AfterReplay(c, r) ELSE "replay"]

\* (the return after the error is missing: the handler goes on)
AfterNotFoundFallThrough(c, r) == "wait_closed"
\* join(), watch(): "return" after the error
AfterNotFound(c, r) == "done"

\* lookup failed: error(websocket, "Game not found."), return; the handler ends
\* and the server closes the connection
NotFound(c, r) ==
    /\ role' = [role EXCEPT ![c] = r]
    /\ received' = Send(received, c, ErrorEvent(GameNotFound))
    /\ via' = Tag(via, c, "unicast")
    /\ pc' = [pc EXCEPT ![c] = AfterNotFound(c, r)]
    /\ open' = [open EXCEPT ![c] = (AfterNotFound(c, r) # "done")]

\* ---- join() -----------------------------------------------------------------
JoinFound(c, jk) ==
    /\ pc[c] = "init" /\ open[c] /\ InOrder(c)
    /\ Lookup(JOIN, jk) # NoGame
    /\ join_key' = [join_key EXCEPT ![c] = jk]
    /\ Attach(c, Lookup(JOIN, jk), "join")
    /\ UNCHANGED << open, JOIN, WATCH, watch_key, moves, winner, minted >>

JoinNotFound(c, jk) ==
    /\ pc[c] = "init" /\ open[c] /\ InOrder(c)
    /\ Lookup(JOIN, jk) = NoGame
    /\ join_key' = [join_key EXCEPT ![c] = jk]
    /\ NotFound(c, "join")
    /\ UNCHANGED << JOIN, WATCH, watch_key, game_of, moves, winner, connected,
                    snap, sent, attachLen, minted >>

\* ---- watch() ----------------------------------------------------------------
WatchFound(c, wk) ==
    /\ pc[c] = "init" /\ open[c] /\ InOrder(c)
    /\ Lookup(WATCH, wk) # NoGame
    /\ watch_key' = [watch_key EXCEPT ![c] = wk]
    /\ Attach(c, Lookup(WATCH, wk), "watch")
    /\ UNCHANGED << open, JOIN, WATCH, join_key, moves, winner, minted >>

WatchNotFound(c, wk) ==
    /\ pc[c] = "init" /\ open[c] /\ InOrder(c)
    /\ Lookup(WATCH, wk) = NoGame
    /\ watch_key' = [watch_key EXCEPT ![c] = wk]
    /\ NotFound(c, "watch")
    /\ UNCHANGED << JOIN, WATCH, join_key, game_of, moves, winner, connected,
                    snap, sent, attachLen, minted >>

\* replay(): the next send of the loop over the copy
ReplayStep(c) ==
    /\ pc[c] = "replay" /\ open[c]
    /\ sent' = [sent EXCEPT ![c] = @ + 1]
    /\ received' = ReplaySend(received, c, ReplayItem(ReplaySource(c), sent[c] + 1))
    /\ via' = Tag(via, c, "replay")
    /\ pc' = [pc EXCEPT ![c] =
                IF sent[c] + 1 = Len(ReplaySource(c)) THEN AfterReplay(c, role[c]) ELSE "replay"]
    /\ UNCHANGED << open, role, JOIN, WATCH, join_key, watch_key, game_of, moves,
                    winner, connected, snap, attachLen, minted >>

\* ---- play() -----------------------------------------------------------------
\* (the win event is broadcast before the play event)
AcceptEventsWinFirst(player, column, row, won) ==
    IF won THEN << WinEvent(player), PlayEvent(player, column, row) >>
    ELSE << PlayEvent(player, column, row) >>
\* the events play() broadcasts for an accepted move, in order
AcceptEvents(player, column, row, won) ==
    IF won THEN << PlayEvent(player, column, row), WinEvent(player) >>
    ELSE << PlayEvent(player, column, row) >>

RECURSIVE BroadcastAll(_, _, _)
BroadcastAll(rcv, g, events) ==
    IF events = << >> THEN rcv
    ELSE BroadcastAll(Broadcast(rcv, g, Head(events)), g, Tail(events))
RECURSIVE BroadcastTagAll(_, _, _)
BroadcastTagAll(v, g, events) ==
    IF events = << >> THEN v
    ELSE BroadcastTagAll(BroadcastTag(v, g), g, Tail(events))

\* a "play" message whose move game.play accepts
PlayAccept(c, column) ==
    LET g == game_of[c]
        m == PlayedMove(g, Player(c), column)
        after == Append(moves[g], m)
        win == WinnerAfter(g, after)
        events == AcceptEvents(Player(c), column, m[3], win # None)
    IN
    /\ pc[c] = "play" /\ open[c]
    /\ Legal(g, Player(c), column)
    /\ moves' = [moves EXCEPT ![g] = after]
    /\ winner' = [winner EXCEPT ![g] = win]
    /\ received' = BroadcastAll(received, g, events)
    /\ via' = BroadcastTagAll(via, g, events)
    /\ UNCHANGED << pc, open, role, JOIN, WATCH, join_key, watch_key, game_of,
                    connected, snap, sent, attachLen, minted >>

\* the number of error events play() has sent so far (capped by MaxErrors)
RECURSIVE SumOver(_, _)
SumOver(f, S) ==
    IF S = {} THEN 0
    ELSE LET x == CHOOSE y \in S : TRUE IN f[x] + SumOver(f, S \ {x})
Rejections ==
    SumOver([d \in Conns |->
               Cardinality({i \in 1 .. Len(received[d]) :
                              /\ received[d][i].type = "error"
                              /\ received[d][i].message # GameNotFound})], Conns)

\* (the error is broadcast like a play event)
ErrorTargetsConnected(c) == BroadcastTargets(game_of[c])
\* the connections an error event of play() is sent to: error(websocket, ...)
ErrorTargets(c) == {c}
\* (the loop is left instead of continued)
AfterRejectBreak(c) == "done"
\* play() after the error was sent: "continue"
AfterReject(c) == "play"

\* a "play" message whose move game.play rejects (RuntimeError)
PlayReject(c, column) ==
    LET g == game_of[c]
        event == ErrorEvent(IllegalReason(g, Player(c), column))
    IN
    /\ pc[c] = "play" /\ open[c]
    /\ ~Legal(g, Player(c), column)
    /\ Rejections < MaxErrors
    /\ received' = [d \in Conns |->
                      IF d \in ErrorTargets(c) THEN Append(received[d], event)
                      ELSE received[d]]
    /\ via' = [d \in Conns |->
                  IF d \in ErrorTargets(c) THEN Append(via[d], "unicast") ELSE via[d]]
    /\ pc' = [pc EXCEPT ![c] = AfterReject(c)]
    /\ UNCHANGED << open, role, JOIN, WATCH, join_key, watch_key, game_of, moves,
                    winner, connected, snap, sent, attachLen, minted >>

\* ---- leaving ----------------------------------------------------------------
\* (no finally clause: the entry stays)
StartFinallyNothing(c) == JOIN
\* start(): finally: del JOIN[join_key]
StartFinally(c) == Unregister(JOIN, join_key[c])
\* join(), watch(): finally: connected.remove(websocket)
AttachFinally(c) == [connected EXCEPT ![game_of[c]] = @ \ {c}]

\* (join() deletes the join key in its finally clause, as start() does)
FinallyJoinerUnregisters(c) ==
    /\ JOIN' = IF role[c] \in {"start", "join"} /\ join_key[c] \in Tokens
               THEN Unregister(JOIN, join_key[c]) ELSE JOIN
    /\ connected' = IF role[c] \in {"join", "watch"} THEN AttachFinally(c) ELSE connected
    /\ pc' = [pc EXCEPT ![c] = "done"]

\* the finally clause the handler of c runs when it leaves, whatever the cause
Finally(c) ==
    /\ JOIN' = IF role[c] = "start" THEN StartFinally(c) ELSE JOIN
    /\ connected' = IF role[c] \in {"join", "watch"} THEN AttachFinally(c) ELSE connected
    /\ pc' = [pc EXCEPT ![c] = "done"]

\* the peer closes the connection, or the transport fails
Disconnect(c) ==
    /\ open[c] /\ pc[c] # "done" /\ InOrder(c)
    /\ open' = [open EXCEPT ![c] = FALSE]
    /\ UNCHANGED << pc, role, JOIN, WATCH, join_key, watch_key, game_of, moves,
                    winner, connected, snap, sent, received, via, attachLen, minted >>

\* the handler resumes on a closed connection: recv / send raise ConnectionClosed
\* (or the message loop and wait_closed end) and the finally clause runs
HandlerClose(c) ==
    /\ ~open[c] /\ pc[c] # "done"
    /\ Finally(c)
    /\ UNCHANGED << open, role, WATCH, join_key, watch_key, game_of, moves, winner,
                    snap, sent, received, via, attachLen, minted >>

\* a message that fails an assert (event["type"] is not "init" / "play"): the
\* handler ends with the exception and the server closes the connection
Violation(c) ==
    /\ pc[c] \in {"init", "play"} /\ open[c] /\ InOrder(c)
    /\ Finally(c)
    /\ open' = [open EXCEPT ![c] = FALSE]
    /\ UNCHANGED << role, WATCH, join_key, watch_key, game_of, moves, winner,
                    snap, sent, received, via, attachLen, minted >>

\* ---- specification ----------------------------------------------------------
NextFresh ==
    \/ \E c \in Conns, jk \in Tokens, wk \in Tokens :
          Fresh("join", jk) /\ Fresh("watch", wk) /\ Start(c, jk, wk)
    \/ \E c \in Conns, jk \in Tokens : JoinFound(c, jk)
    \/ \E c \in Conns, jk \in Tokens : JoinNotFound(c, jk)
    \/ \E c \in Conns, wk \in Tokens : WatchFound(c, wk)
    \/ \E c \in Conns, wk \in Tokens : WatchNotFound(c, wk)
    \/ \E c \in Conns : ReplayStep(c)
    \/ \E c \in Conns, column \in Columns : PlayAccept(c, column)
    \/ \E c \in Conns, column \in Columns : PlayReject(c, column)
    \/ \E c \in Conns : Disconnect(c)
    \/ \E c \in Conns : HandlerClose(c)
    \/ \E c \in Conns : Violation(c)

Spec == Init /\ [][NextFresh]_vars

\* the same server when token_urlsafe may return a key it returned before
NextAnyKey ==
    \/ \E c \in Conns, jk \in Tokens, wk \in Tokens : Start(c, jk, wk)
    \/ \E c \in Conns, jk \in Tokens : JoinFound(c, jk)
    \/ \E c \in Conns, jk \in Tokens : JoinNotFound(c, jk)
    \/ \E c \in Conns, wk \in Tokens : WatchFound(c, wk)
    \/ \E c \in Conns, wk \in Tokens : WatchNotFound(c, wk)
    \/ \E c \in Conns : ReplayStep(c)
    \/ \E c \in Conns, column \in Columns : PlayAccept(c, column)
    \/ \E c \in Conns, column \in Columns : PlayReject(c, column)
    \/ \E c \in Conns : Disconnect(c)
    \/ \E c \in Conns : HandlerClose(c)
    \/ \E c \in Conns : Violation(c)

SpecAnyKey == Init /\ [][NextAnyKey]_vars

\* ---- properties -------------------------------------------------------------
Started(g) == role[g] = "start"
Running(g) == Started(g) /\ pc[g] # "done"
Ended(g) == Started(g) /\ pc[g] = "done"
\* c holds a game, its handler has not left and its transport is open
Attached(c) == game_of[c] # NoGame /\ pc[c] # "done" /\ open[c]
LastOf(s) == s[Len(s)]
\* the positions of play events in what c received
PlayAt(c) == {i \in 1 .. Len(received[c]) : received[c][i].type = "play"}
\* the position in the move log of game g of the move a play event reports
MoveIndex(g, e) == CHOOSE k \in 1 .. Len(moves[g]) : MoveEvent(moves[g][k]) = e
\* the steps in which the handler of c dispatches to join() with the key of g
JoinsWithKeyOf(c, g) ==
    pc[c] = "init" /\ role'[c] = "join" /\ Started(g) /\ join_key'[c] = join_key[g]

\* C1: a join() that presents the join key of a game resolves to that game (and
\* its connected set) while the start() handler of the game is running, and
\* gets the error "Game not found." once that handler has ended, whoever else
\* is still attached to the game.
C1_JoinResolvesWhileStarterRuns ==
    [][\A c \in Conns, g \in Conns :
          JoinsWithKeyOf(c, g) =>
              IF pc[g] # "done"
              THEN /\ game_of'[c] = g
                   /\ c \in connected'[g]
                   /\ pc'[c] \in {"replay", "play"}
              ELSE /\ game_of'[c] = NoGame
                   /\ \A h \in Conns : c \notin connected'[h]
                   /\ received'[c] = << ErrorEvent(GameNotFound) >>
                   /\ pc'[c] = "done"]_vars

\* C1 witness: a joiner is still attached to a game whose starter has left, and
\* another join with the same key got "Game not found."
C1_Witness ==
    \E g \in Conns, b \in Conns, c \in Conns :
        /\ Ended(g)
        /\ role[b] = "join" /\ game_of[b] = g /\ Attached(b) /\ b \in connected[g]
        /\ role[c] = "join" /\ join_key[c] = join_key[g] /\ game_of[c] = NoGame
        /\ received[c] = << ErrorEvent(GameNotFound) >>

\* C2: once the first player's handler has ended, neither the join key nor the
\* watch key of its game is in the registry (so a later watch() with that key
\* gets "Game not found.").
C2_BothKeysRemoved ==
    \A g \in Conns :
        Ended(g) => /\ Lookup(JOIN, join_key[g]) = NoGame
                    /\ Lookup(WATCH, watch_key[g]) = NoGame

\* C3: a connection that attached to a game and stays attached has received the
\* play event of every accepted move exactly once, except the moves its replay
\* has not reached yet: the moves accepted before the attach through replay(),
\* the moves accepted after it through broadcast.
C3_EachMoveExactlyOnce ==
    \A c \in Conns :
        Attached(c) =>
            \A k \in 1 .. Len(moves[game_of[c]]) :
                LET occ == {i \in PlayAt(c) :
                              received[c][i] = MoveEvent(moves[game_of[c]][k])}
                IN /\ Cardinality(occ) <= 1
                   /\ (pc[c] # "replay" \/ k > attachLen[c]) => Cardinality(occ) = 1
                   /\ \A i \in occ :
                         via[c][i] = IF k <= attachLen[c] THEN "replay" ELSE "broadcast"

\* C3 witness: a connection attached after two moves, a third move was accepted
\* while its replay was in progress, and the replay is over.
C3_Witness ==
    \E c \in Conns :
        /\ Attached(c) /\ role[c] \in {"join", "watch"} /\ pc[c] # "replay"
        /\ attachLen[c] >= 2 /\ Len(moves[game_of[c]]) > attachLen[c]
        /\ \E i \in PlayAt(c) : via[c][i] = "broadcast" /\ i < Len(received[c])

\* C4 as stated: every connection receives the play events in the order in
\* which the moves were accepted.
C4_PlayEventsInAcceptOrder ==
    \A c \in Conns :
        game_of[c] # NoGame =>
            \A i \in PlayAt(c), j \in PlayAt(c) :
                i < j => MoveIndex(game_of[c], received[c][i])
                            < MoveIndex(game_of[c], received[c][j])

\* C4 amended: the play events a connection receives are in the order of
\* acceptance except that a move broadcast while replay() to the connection is
\* in progress precedes the replayed records still to be sent; the replayed
\* records are in order among themselves, so are the broadcast ones, and no
\* replayed record precedes an older broadcast one.
C4_InOrderButBroadcastDuringReplay ==
    \A c \in Conns :
        game_of[c] # NoGame =>
            \A i \in PlayAt(c), j \in PlayAt(c) :
                (i < j /\ ~(via[c][i] = "broadcast" /\ via[c][j] = "replay"))
                    => MoveIndex(game_of[c], received[c][i])
                          < MoveIndex(game_of[c], received[c][j])

\* C4 witness: a connection received a broadcast play event before a replayed one
C4_Witness ==
    \E c \in Conns :
        \E i \in PlayAt(c), j \in PlayAt(c) :
            /\ i < j /\ via[c][i] = "broadcast" /\ via[c][j] = "replay"
            /\ MoveIndex(game_of[c], received[c][i])
                  > MoveIndex(game_of[c], received[c][j])

\* an error event of play(): the reason game.play gave for refusing a move
IllegalError(e) == e.type = "error" /\ e.message # GameNotFound
\* the steps in which such an error event is written to c
RejectStepAt(c) ==
    Len(received'[c]) > Len(received[c]) /\ IllegalError(LastOf(received'[c]))
Rejected(c) == \E i \in 1 .. Len(received[c]) : IllegalError(received[c][i])

\* C5: a step in which play() reports a refused move leaves every move log and
\* winner unchanged and writes one event only: the error event, carrying the
\* reason the engine gives for a move of that player, to the connection that
\* submitted the move; no other connection receives anything.
C5_RejectedMoveOnlyErrorToSender ==
    [][\A c \in Conns :
          RejectStepAt(c) =>
              /\ pc[c] = "play"
              /\ moves' = moves /\ winner' = winner
              /\ received'[c] = Append(received[c], LastOf(received'[c]))
              /\ \E column \in Columns :
                    /\ ~Legal(game_of[c], Player(c), column)
                    /\ LastOf(received'[c]) =
                          ErrorEvent(IllegalReason(game_of[c], Player(c), column))
              /\ \A d \in Conns \ {c} : received'[d] = received[d]]_vars

\* C5 witness: a player got an error event for a refused move while another
\* connection was attached to the same game
C5_Witness ==
    \E c \in Conns, d \in Conns :
        /\ c # d /\ Rejected(c)
        /\ Attached(d) /\ game_of[d] = game_of[c] /\ ~Rejected(d)

\* C6: after a move of a player is refused the connection stays active (its
\* play() loop goes on, it stays in the connected set, both registries are
\* unchanged), every move of it that the engine accepts is still taken, and a
\* move accepted from it reaches every open member of the connected set.
C6_ActiveAfterRejection ==
    [][/\ \A c \in Conns :
             RejectStepAt(c) =>
                 /\ pc'[c] = "play" /\ open'[c]
                 /\ c \in connected'[game_of[c]]
                 /\ JOIN' = JOIN /\ WATCH' = WATCH /\ connected' = connected
       /\ \A c \in Conns :
             (Rejected(c) /\ pc[c] = "play" /\ open[c]) =>
                 \A column \in Columns :
                     Legal(game_of[c], Player(c), column)
                         => ENABLED PlayAccept(c, column)
       /\ \A c \in Conns :
             (/\ Rejected(c) /\ pc[c] = "play" /\ open[c]
              /\ Len(moves'[game_of[c]]) = Len(moves[game_of[c]]) + 1
              /\ LastOf(moves'[game_of[c]])[1] = Player(c)) =>
                 \A d \in connected[game_of[c]] :
                     open[d] =>
                         \E i \in (Len(received[d]) + 1) .. Len(received'[d]) :
                             received'[d][i] = MoveEvent(LastOf(moves'[game_of[c]]))]_vars

\* C6 witness: the only connection playing for its side got an error event and
\* later the broadcast play event of a move of its own
C6_Witness ==
    \E c \in Conns :
        /\ pc[c] = "play" /\ open[c]
        /\ \A d \in Conns \ {c} :
              game_of[d] = game_of[c] => (role[d] = "watch" \/ Player(d) # Player(c))
        /\ \E i \in 1 .. Len(received[c]), j \in PlayAt(c) :
              /\ i < j /\ IllegalError(received[c][i])
              /\ received[c][j].player = Player(c) /\ via[c][j] = "broadcast"

\* the steps in which the handler of c dispatches to join() or watch() with a
\* key that is not in the registry of that kind
UnknownKeyStep(c) ==
    /\ pc[c] = "init" /\ role'[c] \in {"join", "watch"}
    /\ role'[c] = "join" => Lookup(JOIN, join_key'[c]) = NoGame
    /\ role'[c] = "watch" => Lookup(WATCH, watch_key'[c]) = NoGame
Refused(c) == role[c] \in {"join", "watch"} /\ game_of[c] = NoGame

\* C7: a join() or watch() with a key that is not in its registry sends one
\* error event "Game not found." to that connection and ends its handler; the
\* connection never receives anything else, is in no connected set, and no
\* registry entry, move log or other connection's events change.
C7_UnknownKeyOnlyError ==
    /\ [](\A c \in Conns :
             Refused(c) =>
                 /\ received[c] = << ErrorEvent(GameNotFound) >>
                 /\ pc[c] = "done"
                 /\ \A g \in Conns : c \notin connected[g])
    /\ [][\A c \in Conns :
             UnknownKeyStep(c) =>
                 /\ received'[c] = << ErrorEvent(GameNotFound) >>
                 /\ pc'[c] = "done"
                 /\ JOIN' = JOIN /\ WATCH' = WATCH
                 /\ moves' = moves /\ winner' = winner /\ connected' = connected
                 /\ \A d \in Conns \ {c} : received'[d] = received[d]]_vars

\* C7 witness: a connection was refused with "Game not found." and a running
\* game has accepted moves
C7_Witness ==
    \E c \in Conns, g \in Conns :
        /\ Refused(c) /\ received[c] = << ErrorEvent(GameNotFound) >>
        /\ Running(g) /\ Len(moves[g]) >= 1

\* C8: once a game has a winner, every open member of its connected set that
\* was a member when the winning move was accepted has received the play event
\* of that move immediately followed by the win event naming the mover; and a
\* win event is never received except right after the broadcast play event of
\* the winning move.
C8_PlayThenWin ==
    /\ \A g \in Conns, d \in Conns :
          (/\ Started(g) /\ winner[g] # None
           /\ d \in connected[g] /\ open[d] /\ attachLen[d] < Len(moves[g])) =>
              \E i \in 1 .. (Len(received[d]) - 1) :
                  /\ received[d][i] = MoveEvent(LastOf(moves[g]))
                  /\ received[d][i + 1] = WinEvent(LastOf(moves[g])[1])
                  /\ winner[g] = LastOf(moves[g])[1]
    /\ \A d \in Conns :
          \A i \in 1 .. Len(received[d]) :
              received[d][i].type = "win" =>
                  /\ i > 1
                  /\ received[d][i - 1] = MoveEvent(LastOf(moves[game_of[d]]))
                  /\ received[d][i - 1].player = received[d][i].player
                  /\ via[d][i - 1] = "broadcast" /\ via[d][i] = "broadcast"

\* C8 witness: a connection that attached with a replay received the play and
\* the win event of a later winning move
C8_Witness ==
    \E d \in Conns :
        /\ role[d] \in {"join", "watch"} /\ Attached(d) /\ attachLen[d] >= 1
        /\ winner[game_of[d]] # None
        /\ \E i \in 1 .. Len(received[d]) : received[d][i].type = "win"

InitAt(c) == {i \in 1 .. Len(received[c]) : received[c][i].type = "init"}

\* C9: a connection dispatched to start() has its own new game, received as its
\* first event the one init event carrying the join key and the watch key of
\* that game, both keys resolve to the game while the handler runs, and no
\* other connection ever receives an init event.
C9_StartRegistersAndSendsInit ==
    \A c \in Conns :
        IF Started(c)
        THEN /\ game_of[c] = c
             /\ InitAt(c) = {1}
             /\ received[c][1] = InitEvent(join_key[c], watch_key[c])
             /\ Running(c) => /\ Lookup(JOIN, join_key[c]) = c
                              /\ Lookup(WATCH, watch_key[c]) = c
        ELSE InitAt(c) = {}

\* C9 witness: a started game that another connection has attached to
C9_Witness ==
    \E c \in Conns, d \in Conns :
        /\ Running(c) /\ d # c /\ game_of[d] = c /\ Attached(d)
        /\ received[c][1] = InitEvent(join_key[c], watch_key[c])

\* the events of rcv whose tag in v is how, in order
RECURSIVE Pick(_, _, _)
Pick(rcv, v, how) ==
    IF rcv = << >> THEN << >>
    ELSE (IF Head(v) = how THEN << Head(rcv) >> ELSE << >>)
            \o Pick(Tail(rcv), Tail(v), how)
Replayed(c) == Pick(received[c], via[c], "replay")

\* C10: what replay() has sent to a connection is a prefix of the move log as
\* it stood when the connection attached, and all of it once replay() is over:
\* a move appended during the replay is not part of it.
C10_ReplayIsSnapshot ==
    \A c \in Conns :
        (role[c] \in {"join", "watch"} /\ game_of[c] # NoGame) =>
            /\ Len(Replayed(c)) <= attachLen[c]
            /\ attachLen[c] <= Len(moves[game_of[c]])
            /\ \A k \in 1 .. Len(Replayed(c)) :
                  Replayed(c)[k] = MoveEvent(moves[game_of[c]][k])
            /\ pc[c] \in {"play", "wait_closed"} => Len(Replayed(c)) = attachLen[c]

\* C10 witness: a replay of two records has finished and a move was appended
\* to the log while it ran
C10_Witness ==
    \E c \in Conns :
        /\ pc[c] \in {"play", "wait_closed"} /\ role[c] \in {"join", "watch"}
        /\ Len(Replayed(c)) = 2 /\ Len(moves[game_of[c]]) = 3
        /\ \E i \in 1 .. Len(via[c]) :
              via[c][i] = "broadcast" /\ \E j \in (i + 1) .. Len(via[c]) : via[c][j] = "replay"

\* C11: a connection whose handler has ended (first player, second player or
\* watcher) is a member of no game's connected set.
C11_EndedConnectionInNoSet ==
    \A c \in Conns :
        pc[c] = "done" => \A g \in Conns : c \notin connected[g]

\* the steps in which the handler of c, which holds a game, ends
Leaves(c) == game_of[c] # NoGame /\ pc[c] # "done" /\ pc'[c] = "done"

\* C12: JOIN and WATCH change only in steps of a start() handler (its start or
\* its end), never in a step of a join() or watch() handler; and the end of a
\* join() or watch() handler changes nothing shared except that the connection
\* leaves the connected set of its game.
C12_JoinerAndWatcherLeaveRegistryAlone ==
    [][/\ (JOIN' # JOIN \/ WATCH' # WATCH) =>
             \E g \in Conns : role'[g] = "start" /\ pc'[g] # pc[g]
       /\ \A c \in Conns :
             (Leaves(c) /\ role[c] \in {"join", "watch"}) =>
                 /\ connected' = [connected EXCEPT ![game_of[c]] = @ \ {c}]
                 /\ JOIN' = JOIN /\ WATCH' = WATCH
                 /\ moves' = moves /\ winner' = winner /\ received' = received]_vars

\* C12 witness: a second player or watcher has left a game whose first player
\* is still there, and both keys of the game still resolve to it
C12_Witness ==
    \E c \in Conns, g \in Conns :
        /\ role[c] \in {"join", "watch"} /\ game_of[c] = g /\ pc[c] = "done"
        /\ c \notin connected[g]
        /\ Running(g)
        /\ Lookup(JOIN, join_key[g]) = g /\ Lookup(WATCH, watch_key[g]) = g

\* C13: whenever a handler that holds a game ends, on whatever path, its
\* cleanup has run: a second player or watcher is out of the connected set, the
\* join key and the watch key of a first player are out of the registry; the
\* step appends no move, sends no event, and keeps every other connection
\* where it was and attached.
C13_CleanupOnEveryExit ==
    [][\A c \in Conns :
          Leaves(c) =>
              /\ role[c] \in {"join", "watch"} => c \notin connected'[game_of[c]]
              /\ role[c] = "start" =>
                    /\ Lookup(JOIN', join_key[c]) = NoGame
                    /\ Lookup(WATCH', watch_key[c]) = NoGame
              /\ moves' = moves /\ winner' = winner /\ received' = received
              /\ \A d \in Conns \ {c} :
                    /\ pc'[d] = pc[d] /\ open'[d] = open[d]
                    /\ \A g \in Conns : d \in connected[g] => d \in connected'[g]]_vars

\* C14: a connection attached through watch() is never in the play() loop and
\* never gets an error event or any other unicast event than its replay; a
\* move is only ever appended when a first or second player's handler of that
\* game is in its play() loop for the side that moved; and from wait_closed a
\* watcher's handler can only end.
C14_WatcherNeverPlays ==
    /\ [](\A c \in Conns :
             (role[c] = "watch" /\ game_of[c] # NoGame) =>
                 /\ pc[c] \in {"replay", "wait_closed", "done"}
                 /\ \A i \in 1 .. Len(received[c]) :
                       /\ received[c][i].type \in {"play", "win"}
                       /\ via[c][i] \in {"replay", "broadcast"})
    /\ [][/\ \A g \in Conns :
                (Started(g) /\ moves'[g] # moves[g]) =>
                    \E c \in Conns :
                        /\ role[c] \in {"start", "join"} /\ game_of[c] = g
                        /\ pc[c] = "play" /\ open[c]
                        /\ Player(c) = LastOf(moves'[g])[1]
          /\ \A c \in Conns :
                pc[c] = "wait_closed" => pc'[c] \in {"wait_closed", "done"}]_vars

\* C14 witness: an open watcher is waiting for its connection to close and has
\* received the broadcast of a move made while it watched
C14_Witness ==
    \E c \in Conns :
        /\ role[c] = "watch" /\ pc[c] = "wait_closed" /\ open[c]
        /\ \E i \in PlayAt(c) : via[c][i] = "broadcast"

\* the connections that are in join() for game g, past the lookup
SecondPlayers(g) ==
    {c \in Conns : role[c] = "join" /\ game_of[c] = g /\ pc[c] \in {"replay", "play"}}

\* C15: a game has at most one connection in the second-player role at a time.
C15_OneSecondPlayer ==
    \A g \in Conns : Started(g) => Cardinality(SecondPlayers(g)) <= 1

\* C16: once the first player's handler of a game has ended, a move appended to
\* the game still reaches every open member of its connected set, and no
\* connection attaches to the game any more, by join() or by watch().
C16_AfterStarterLeft ==
    [][\A g \in Conns :
          Ended(g) =>
              /\ moves'[g] # moves[g] =>
                    /\ Len(moves'[g]) = Len(moves[g]) + 1
                    /\ \A d \in connected[g] :
                          open[d] =>
                              \E i \in (Len(received[d]) + 1) .. Len(received'[d]) :
                                  received'[d][i] = MoveEvent(LastOf(moves'[g]))
              /\ \A c \in Conns : game_of[c] = NoGame => game_of'[c] # g]_vars

\* C17: storing a key in start() never replaces an entry that is there: an
\* entry of JOIN or WATCH only ever goes away, it never comes to name another
\* game, and two games never hold the same join key or the same watch key.
C17_RegisterNeverOverwrites ==
    [][/\ \A k \in Tokens :
             /\ JOIN[k] # NoGame => JOIN'[k] \in {JOIN[k], NoGame}
             /\ WATCH[k] # NoGame => WATCH'[k] \in {WATCH[k], NoGame}
       /\ \A g \in Conns, h \in Conns :
             (g # h /\ role'[g] = "start" /\ role'[h] = "start") =>
                 /\ join_key'[g] # join_key'[h]
                 /\ watch_key'[g] # watch_key'[h]]_vars

\* the steps in which replay() writes an event to c
ReplayStepAt(c) == Len(via'[c]) > Len(via[c]) /\ LastOf(via'[c]) = "replay"

\* C18: a step in which a connection attaches through join() or watch(), or in
\* which replay() sends to it, writes nothing to any other connection; a second
\* player is in play() only after replay() has sent its whole copy, and while
\* its replay is in progress a move of its game comes from another connection.
C18_ReplayUnicastBeforePlay ==
    [][\A c \in Conns :
          /\ (pc[c] = "init" /\ role'[c] \in {"join", "watch"}) =>
                \A d \in Conns \ {c} : received'[d] = received[d]
          /\ ReplayStepAt(c) =>
                /\ \A d \in Conns \ {c} : received'[d] = received[d]
                /\ moves' = moves
          /\ (role[c] = "join" /\ pc[c] = "play") =>
                /\ sent[c] = Len(snap[c])
                /\ Len(Replayed(c)) = attachLen[c]
          /\ (role[c] = "join" /\ pc[c] = "replay"
                /\ moves'[game_of[c]] # moves[game_of[c]]) =>
                \E d \in Conns \ {c} :
                    /\ game_of[d] = game_of[c] /\ pc[d] = "play" /\ open[d]
                    /\ Player(d) = LastOf(moves'[game_of[c]])[1]]_vars

\* C18 witness: a second player was sent a replayed record while the first
\* player was connected, and afterwards played a move of its own
C18_Witness ==
    \E c \in Conns :
        /\ role[c] = "join" /\ Attached(c) /\ Len(Replayed(c)) >= 1
        /\ open[game_of[c]] /\ pc[game_of[c]] = "play"
        /\ \E i \in PlayAt(c) :
              via[c][i] = "broadcast" /\ received[c][i].player = PLAYER2

\* C19: every entry of JOIN is the join key of a started game whose watch key
\* is in WATCH and names the same game (and so the same connected set).
C19_JoinEntryHasWatchEntry ==
    \A k \in Tokens :
        Lookup(JOIN, k) # NoGame =>
            LET g == Lookup(JOIN, k) IN
            /\ Started(g) /\ game_of[g] = g
            /\ join_key[g] = k
            /\ Lookup(WATCH, watch_key[g]) = g

\* C19 witness: two games are registered at once, each under both keys
C19_Witness ==
    \E g \in Conns, h \in Conns :
        /\ g # h /\ Running(g) /\ Running(h)
        /\ Lookup(JOIN, join_key[g]) = g /\ Lookup(WATCH, watch_key[g]) = g
        /\ Lookup(JOIN, join_key[h]) = h /\ Lookup(WATCH, watch_key[h]) = h

====
